---- MODULE Spec2Model ----
\* A model of package changelog (src/changelog.go): ToVersion, ParseMd,
\* ParseDebian and Changelog.Debian.  Go strings are sequences of one-character
\* strings, so that formatting and parsing are computed and not assumed.
EXTENDS Integers, Sequences, FiniteSets, TLC

VARIABLES
    vs,       \* ToVersion: the argument s, and how much of it the caller added
    vres,     \* ToVersion: whether it has returned, and the returned v and err
    pc,       \* parser position: "idle", "md", "outer", "inner", "done"
    cl,       \* the parser's result map, Changelog (Version -> Release)
    err,      \* the parser's named result err
    curVer,   \* ParseMd: curVer (a sequence holding at most one Version)
    curGrp,   \* ParseMd: curGrp
    blk,      \* ParseDebian: v, verString and rel of the block being read
    nread,    \* how many lines the scanner has returned so far
    last,     \* the line the scanner returned last
    flagged,  \* the structural errors assigned to err so far (their kinds)
    via,      \* ParseDebian: for each key of cl, the trailer line that stored it
    stream,   \* the lines read so far as their reader sees them: the most recent
              \* heading or header line, the blocks they form, a failed read
    clIn,     \* Debian(): the receiver, the caller's model
    pkg,      \* Debian(): packageName
    out,      \* Debian(): whether it has returned, and the returned bytes
    emitted,  \* Debian(): the releases in the order their blocks were written
    before,   \* the caller's model as it was when Debian() was called
    buf       \* the lines of out still to be read back by ParseDebian

vars == <<vs, vres, pc, cl, err, curVer, curGrp, blk, nread, last, flagged, via,
          stream, clIn, pkg, out, emitted, before, buf>>

verVars == <<vs, vres>>
parseVars == <<pc, cl, err, curVer, curGrp, blk, nread, last, flagged, via, stream>>
fmtVars == <<clIn, pkg, out, emitted, before, buf>>

-----------------------------------------------------------------------------
\* Bounds of the model.

MaxSuffix == 3
MaxLines == 6
MaxReleases == 2

-----------------------------------------------------------------------------
\* Characters and the strings package.

Digits == {"0", "1", "2", "3", "4", "5", "6", "7", "8", "9"}

NonZeroDigits == Digits \ {"0"}

Letters ==
    {"a", "b", "c", "d", "e", "f", "g", "h", "i", "j", "k", "l", "m",
     "n", "o", "p", "q", "r", "s", "t", "u", "v", "w", "x", "y", "z",
     "A", "B", "C", "D", "E", "F", "G", "H", "I", "J", "K", "L", "M",
     "N", "O", "P", "Q", "R", "S", "T", "U", "V", "W", "X", "Y", "Z"}

\* [0-9a-zA-Z-]
IdentChars == Digits \cup Letters \cup {"-"}

HasPrefix(s, p) == Len(s) >= Len(p) /\ SubSeq(s, 1, Len(p)) = p

TrimPrefix(s, p) == IF HasPrefix(s, p) THEN SubSeq(s, Len(p) + 1, Len(s)) ELSE s

HasSuffix(s, p) == Len(s) >= Len(p) /\ SubSeq(s, Len(s) - Len(p) + 1, Len(s)) = p

TrimSuffix(s, p) == IF HasSuffix(s, p) THEN SubSeq(s, 1, Len(s) - Len(p)) ELSE s

\* strings.Index, 1-based; 0 when sep does not occur in s.
RECURSIVE IndexFrom(_, _, _)
IndexFrom(s, sep, i) ==
    IF i + Len(sep) - 1 > Len(s) THEN 0
    ELSE IF SubSeq(s, i, i + Len(sep) - 1) = sep THEN i
    ELSE IndexFrom(s, sep, i + 1)

Index(s, sep) == IndexFrom(s, sep, 1)

RECURSIVE Split(_, _)
Split(s, sep) ==
    LET i == Index(s, sep)
    IN  IF i = 0 THEN <<s>>
        ELSE <<SubSeq(s, 1, i - 1)>> \o Split(SubSeq(s, i + Len(sep), Len(s)), sep)

\* strings.SplitN(s, sep, 2)
SplitN2(s, sep) ==
    IF Index(s, sep) = 0 THEN <<s>>
    ELSE <<SubSeq(s, 1, Index(s, sep) - 1), SubSeq(s, Index(s, sep) + Len(sep), Len(s))>>

-----------------------------------------------------------------------------
\* strconv.Atoi and %d.

DigitVal(c) ==
    CASE c = "0" -> 0 [] c = "1" -> 1 [] c = "2" -> 2 [] c = "3" -> 3
      [] c = "4" -> 4 [] c = "5" -> 5 [] c = "6" -> 6 [] c = "7" -> 7
      [] c = "8" -> 8 [] c = "9" -> 9

DigitChar(n) == <<"0", "1", "2", "3", "4", "5", "6", "7", "8", "9">>[n + 1]

RECURSIVE DecVal(_)
DecVal(s) ==
    IF s = <<>> THEN 0 ELSE 10 * DecVal(SubSeq(s, 1, Len(s) - 1)) + DigitVal(s[Len(s)])

\* strconv.Atoi: an optional sign and then digits only, at least one.  The
\* strings of this model are far shorter than the 19 digits an int holds, so
\* the range error is not reachable here.
IsDigits(s) == s # <<>> /\ \A i \in 1..Len(s) : s[i] \in Digits

Atoi(s) ==
    IF s # <<>> /\ s[1] \in {"+", "-"}
    THEN IF IsDigits(Tail(s))
         THEN [ok |-> TRUE, n |-> IF s[1] = "-" THEN 0 - DecVal(Tail(s)) ELSE DecVal(Tail(s))]
         ELSE [ok |-> FALSE, n |-> 0]
    ELSE IF IsDigits(s) THEN [ok |-> TRUE, n |-> DecVal(s)] ELSE [ok |-> FALSE, n |-> 0]

\* fmt.Sprintf("%d", n)
RECURSIVE Itoa(_)
Itoa(n) ==
    IF n < 0 THEN <<"-">> \o Itoa(0 - n)
    ELSE IF n < 10 THEN <<DigitChar(n)>>
    ELSE Itoa(n \div 10) \o <<DigitChar(n % 10)>>

-----------------------------------------------------------------------------
\* The regular expression semver, matched the way Go's regexp matches:
\* leftmost, and among the matches at that place the one a backtracking
\* matcher finds first.

\* \d* from position i: the position after the run.
RECURSIVE DigitRunEnd(_, _)
DigitRunEnd(s, i) ==
    IF i <= Len(s) /\ s[i] \in Digits THEN DigitRunEnd(s, i + 1) ELSE i

\* [0-9a-zA-Z-]* from position i: the position after the run.
RECURSIVE IdentRunEnd(_, _)
IdentRunEnd(s, i) ==
    IF i <= Len(s) /\ s[i] \in IdentChars THEN IdentRunEnd(s, i + 1) ELSE i

\* 0|[1-9]\d* at position i: the position after it, 0 when it does not match.
\* The first alternative wins when the text starts with 0; what follows in
\* semver is either a literal dot, which no shorter run of digits could reach,
\* or optional, so no other choice is ever taken.
NumEnd(s, i) ==
    IF i > Len(s) THEN 0
    ELSE IF s[i] = "0" THEN i + 1
    ELSE IF s[i] \in NonZeroDigits THEN DigitRunEnd(s, i + 1)
    ELSE 0

\* 0|[1-9]\d*|\d*[a-zA-Z-][0-9a-zA-Z-]* at position i, not anchored at its
\* end: everything after it in semver may match the empty string, so the first
\* alternative that matches is the one taken, and the third is reached only
\* when the text starts with a letter or a hyphen.
PreIdentEnd(s, i) ==
    IF i > Len(s) THEN 0
    ELSE IF s[i] = "0" THEN i + 1
    ELSE IF s[i] \in NonZeroDigits THEN DigitRunEnd(s, i + 1)
    ELSE IF s[i] \in Letters \cup {"-"} THEN IdentRunEnd(s, i + 1)
    ELSE 0

\* (?:\.ident)* from position i, greedy: the position after the last repeat.
RECURSIVE PreTailEnd(_, _)
PreTailEnd(s, i) ==
    IF i <= Len(s) /\ s[i] = "." /\ PreIdentEnd(s, i + 1) # 0
    THEN PreTailEnd(s, PreIdentEnd(s, i + 1))
    ELSE i

\* [0-9a-zA-Z-]+ at position i: the position after it, 0 when it does not match.
BuildIdentEnd(s, i) == IF IdentRunEnd(s, i) > i THEN IdentRunEnd(s, i) ELSE 0

RECURSIVE BuildTailEnd(_, _)
BuildTailEnd(s, i) ==
    IF i <= Len(s) /\ s[i] = "." /\ BuildIdentEnd(s, i + 1) # 0
    THEN BuildTailEnd(s, BuildIdentEnd(s, i + 1))
    ELSE i

NoMatch == [ok |-> FALSE, end |-> 0, major |-> <<>>, minor |-> <<>>,
            patch |-> <<>>, prerelease |-> <<>>]

\* \.(0|[1-9]\d*) after a number that ended before position e (0: no number).
AfterDot(s, e) ==
    IF e # 0 /\ e <= Len(s) /\ s[e] = "." THEN NumEnd(s, e + 1) ELSE 0

\* (?:-(prerelease))? with patch ending before e: the position after the first
\* identifier, 0 when the group takes no part.
PreFirstEnd(s, e) ==
    IF e <= Len(s) /\ s[e] = "-" THEN PreIdentEnd(s, e + 1) ELSE 0

PreEnd(s, e) ==
    IF PreFirstEnd(s, e) # 0 THEN PreTailEnd(s, PreFirstEnd(s, e)) ELSE e

\* (?:\+(buildmetadata))? from position e.
BuildEnd(s, e) ==
    IF e <= Len(s) /\ s[e] = "+" /\ BuildIdentEnd(s, e + 1) # 0
    THEN BuildTailEnd(s, BuildIdentEnd(s, e + 1))
    ELSE e

\* The match that starts at i, with major, minor and patch ending before e1,
\* e2 and e3 and the prerelease group before e4 (e4 = e3: it took no part).
MatchGroups(s, i, e1, e2, e3, e4) ==
    [ok |-> TRUE,
     end |-> BuildEnd(s, e4),
     major |-> SubSeq(s, i, e1 - 1),
     minor |-> SubSeq(s, e1 + 1, e2 - 1),
     patch |-> SubSeq(s, e2 + 1, e3 - 1),
     prerelease |-> IF e4 > e3 THEN SubSeq(s, e3 + 1, e4 - 1) ELSE <<>>]

MatchPatch(s, i, e1, e2, e3) ==
    IF e3 = 0 THEN NoMatch ELSE MatchGroups(s, i, e1, e2, e3, PreEnd(s, e3))

MatchMinor(s, i, e1, e2) == MatchPatch(s, i, e1, e2, AfterDot(s, e2))

MatchMajor(s, i, e1) == MatchMinor(s, i, e1, AfterDot(s, e1))

\* semver matched at position i exactly: ok, the position after the match and
\* the text of the groups (a group that took no part is the empty string).
MatchAt(s, i) == MatchMajor(s, i, NumEnd(s, i))

\* The leftmost position >= i where semver matches, 0 when there is none.
RECURSIVE MatchStart(_, _)
MatchStart(s, i) ==
    IF i > Len(s) THEN 0
    ELSE IF MatchAt(s, i).ok THEN i
    ELSE MatchStart(s, i + 1)

\* semver.FindString(line)
FindFrom(line, j) == IF j = 0 THEN <<>> ELSE SubSeq(line, j, MatchAt(line, j).end - 1)

FindString(line) == FindFrom(line, MatchStart(line, 1))

\* semver.ReplaceAllString(s, "${grp}") from position i on: every match is
\* replaced by its group grp, the text between the matches is kept.
RECURSIVE ReplaceAllFrom(_, _, _)
ReplaceAllFrom(s, grp, i) ==
    LET j == MatchStart(s, i)
        m == MatchAt(s, MatchStart(s, i))
    IN  IF j = 0 THEN SubSeq(s, i, Len(s))
        ELSE SubSeq(s, i, j - 1) \o m[grp] \o ReplaceAllFrom(s, grp, m.end)

ReplaceAllString(s, grp) == ReplaceAllFrom(s, grp, 1)

\* The identifiers of the anchored expression, where every alternative can be
\* reached: a number without leading zeros, or any run of [0-9a-zA-Z-] that
\* holds a character other than a digit.
IsNumeric(t) ==
    /\ t # <<>>
    /\ \A i \in 1..Len(t) : t[i] \in Digits
    /\ (Len(t) > 1 => t[1] # "0")

IsPreIdent(t) ==
    /\ t # <<>>
    /\ \A i \in 1..Len(t) : t[i] \in IdentChars
    /\ (IsNumeric(t) \/ \E i \in 1..Len(t) : t[i] \notin Digits)

IsBuildIdent(t) == t # <<>> /\ \A i \in 1..Len(t) : t[i] \in IdentChars

AllNumeric(parts) == \A i \in 1..Len(parts) : IsNumeric(parts[i])

AllPreIdent(parts) == \A i \in 1..Len(parts) : IsPreIdent(parts[i])

AllBuildIdent(parts) == \A i \in 1..Len(parts) : IsBuildIdent(parts[i])

\* The text before the first sep, all of s when sep does not occur.
Before(s, sep) == IF Index(s, sep) = 0 THEN s ELSE SubSeq(s, 1, Index(s, sep) - 1)

\* The text after the first sep.
After(s, sep) == SubSeq(s, Index(s, sep) + Len(sep), Len(s))

\* front is the text before the build metadata, nums the dot-separated parts
\* of the text before the prerelease.
FullMatchParts(s, front, nums) ==
    /\ Len(nums) = 3
    /\ AllNumeric(nums)
    /\ (Index(front, <<"-">>) # 0 => AllPreIdent(Split(After(front, <<"-">>), <<".">>)))
    /\ (Index(s, <<"+">>) # 0 => AllBuildIdent(Split(After(s, <<"+">>), <<".">>)))

FullMatchFront(s, front) ==
    FullMatchParts(s, front, Split(Before(front, <<"-">>), <<".">>))

\* regexp.MustCompile("^" + semver + "$").MatchString(s): the whole of s is
\*   MAJOR.MINOR.PATCH[-PRERELEASE][+BUILDMETADATA].
\* No identifier holds a "+", so the build metadata starts at the first "+";
\* the numbers hold no "-", so the prerelease starts at the first "-" before it.
FullMatch(s) == FullMatchFront(s, Before(s, <<"+">>))

-----------------------------------------------------------------------------
\* type Version and ToVersion.

ZeroVersion == [Major |-> 0, Minor |-> 0, Patch |-> 0, Prerelease |-> <<>>]

\* v = Version{Major: major, ...}, reached only when every Atoi succeeded.
VersionOf(major, minor, patch, pre) ==
    IF major.ok /\ minor.ok /\ patch.ok
    THEN [v |-> [Major |-> major.n, Minor |-> minor.n, Patch |-> patch.n,
                 Prerelease |-> pre],
          err |-> "nil"]
    ELSE [v |-> ZeroVersion, err |-> "nil"]

\* ToVersion(s).  The err of each strconv.Atoi is declared with := inside its
\* if block, so it never reaches the named result err: when a conversion
\* fails, v stays the zero Version and err stays nil.
ToVersion(s) ==
    IF FullMatch(s)
    THEN VersionOf(Atoi(ReplaceAllString(s, "major")),
                   Atoi(ReplaceAllString(s, "minor")),
                   Atoi(ReplaceAllString(s, "patch")),
                   ReplaceAllString(s, "prerelease"))
    ELSE [v |-> ZeroVersion, err |-> "ErrNotSemver"]

\* The version as Debian() writes it: fmt.Sprintf("%d.%d.%d") and, when
\* Prerelease is not empty, "-" and Prerelease.
VerText(v) ==
    LET ver == Itoa(v.Major) \o <<".">> \o Itoa(v.Minor) \o <<".">> \o Itoa(v.Patch)
    IN  IF v.Prerelease # <<>> THEN ver \o <<"-">> \o v.Prerelease ELSE ver

-----------------------------------------------------------------------------
\* Go compares strings byte by byte: the characters of the model in ASCII order.

Ascii ==
    <<"\n", "\r", " ", "(", ")", "*", "+", ",", "-", ".",
      "0", "1", "2", "3", "4", "5", "6", "7", "8", "9",
      ":", ";", "<", "=", ">", "@",
      "A", "B", "C", "D", "E", "F", "G", "H", "I", "J", "K", "L", "M",
      "N", "O", "P", "Q", "R", "S", "T", "U", "V", "W", "X", "Y", "Z",
      "[", "]",
      "a", "b", "c", "d", "e", "f", "g", "h", "i", "j", "k", "l", "m",
      "n", "o", "p", "q", "r", "s", "t", "u", "v", "w", "x", "y", "z">>

Ord(c) == CHOOSE i \in 1..Len(Ascii) : Ascii[i] = c

\* a < b on strings
RECURSIVE StrLess(_, _)
StrLess(a, b) ==
    IF b = <<>> THEN FALSE
    ELSE IF a = <<>> THEN TRUE
    ELSE IF a[1] # b[1] THEN Ord(a[1]) < Ord(b[1])
    ELSE StrLess(Tail(a), Tail(b))

-----------------------------------------------------------------------------
\* time.Time.  The dates of the model are the midnights (UTC) of July 2019,
\* written as the day of the month 1..31, and the zero Time, written 0.

ZeroTime == 0

WeekDays ==
    <<<<"M", "o", "n">>, <<"T", "u", "e">>, <<"W", "e", "d">>, <<"T", "h", "u">>,
      <<"F", "r", "i">>, <<"S", "a", "t">>, <<"S", "u", "n">>>>

TwoDigits(n) == <<DigitChar(n \div 10), DigitChar(n % 10)>>

\* " Jul 2019 00:00:00 +0000"
JulyTail ==
    <<" ", "J", "u", "l", " ", "2", "0", "1", "9", " ",
      "0", "0", ":", "0", "0", ":", "0", "0", " ", "+", "0", "0", "0", "0">>

\* "Mon, 01 Jan 0001 00:00:00 +0000"
ZeroTimeText ==
    <<"M", "o", "n", ",", " ", "0", "1", " ", "J", "a", "n", " ", "0", "0", "0", "1", " ",
      "0", "0", ":", "0", "0", ":", "0", "0", " ", "+", "0", "0", "0", "0">>

\* d.Format(time.RFC1123Z); 1 July 2019 was a Monday.
FormatRFC1123Z(d) ==
    IF d = ZeroTime THEN ZeroTimeText
    ELSE WeekDays[((d - 1) % 7) + 1] \o <<",", " ">> \o TwoDigits(d) \o JulyTail

\* time.Parse(time.RFC1123Z, s), for the dates of the model: a weekday name
\* (which Parse reads and does not compare with the date), ", ", two digits of
\* a day 01..31 and the rest of the layout.
ParseRFC1123Z(s) ==
    IF s = ZeroTimeText THEN [ok |-> TRUE, d |-> ZeroTime]
    ELSE IF /\ Len(s) = 7 + Len(JulyTail)
            /\ \E i \in 1..7 : SubSeq(s, 1, 3) = WeekDays[i]
            /\ SubSeq(s, 4, 5) = <<",", " ">>
            /\ s[6] \in Digits /\ s[7] \in Digits
            /\ DecVal(SubSeq(s, 6, 7)) \in 1..31
            /\ SubSeq(s, 8, Len(s)) = JulyTail
         THEN [ok |-> TRUE, d |-> DecVal(SubSeq(s, 6, 7))]
         ELSE [ok |-> FALSE, d |-> ZeroTime]

\* d, _ := time.Parse(" 2006-01-02", dateRe.FindString(line)): the line ends
\* with " dddd-dd-dd" and that names a day of July 2019; the zero Time
\* otherwise (the error of Parse is dropped).
MdDate(line) ==
    LET n == Len(line)
        t == SubSeq(line, n - 10, n)
    IN  IF /\ n >= 11
           /\ SubSeq(t, 1, 9) = <<" ", "2", "0", "1", "9", "-", "0", "7", "-">>
           /\ t[10] \in Digits /\ t[11] \in Digits
           /\ DecVal(SubSeq(t, 10, 11)) \in 1..31
        THEN DecVal(SubSeq(t, 10, 11))
        ELSE ZeroTime

-----------------------------------------------------------------------------
\* type Change, Release, Maintainer, Changelog.

ZeroMaintainer == [Name |-> <<>>, Email |-> <<>>]

ZeroRelease ==
    [Date |-> ZeroTime, Changes |-> <<>>, Urgency |-> <<>>, Distribution |-> <<>>,
     Maintainer |-> ZeroMaintainer]

EmptyMap == [v \in {} |-> ZeroRelease]

\* cl[v] = rel
Put(m, v, rel) == [k \in DOMAIN m \cup {v} |-> IF k = v THEN rel ELSE m[k]]

NotReturned == [returned |-> FALSE, v |-> ZeroVersion, err |-> "nil"]

Returned(r) == [returned |-> TRUE, v |-> r.v, err |-> r.err]

NotCalled == [called |-> FALSE, bytes |-> <<>>]

\* var v Version; verString; var rel Release
ZeroBlock == [v |-> ZeroVersion, verString |-> <<>>, rel |-> ZeroRelease]

-----------------------------------------------------------------------------
\* Changelog.Debian.

Front(s) == SubSeq(s, 1, Len(s) - 1)

Last(s) == s[Len(s)]

RECURSIVE Reverse(_)
Reverse(s) == IF s = <<>> THEN <<>> ELSE <<Last(s)>> \o Reverse(Front(s))

\* A less function that compares the dates only.
ReleaseLessByDate(a, b) == a.d < b.d

\* The less function of sort.SliceStable(releases, ...): by date, then major,
\* minor, patch, and last the prerelease strings compared with <.
ReleaseLess(a, b) ==
    IF a.d # b.d THEN a.d < b.d
    ELSE IF a.v.Major # b.v.Major THEN a.v.Major < b.v.Major
    ELSE IF a.v.Minor # b.v.Minor THEN a.v.Minor < b.v.Minor
    ELSE IF a.v.Patch # b.v.Patch THEN a.v.Patch < b.v.Patch
    ELSE StrLess(a.v.Prerelease, b.v.Prerelease)

\* sort.SliceStable as a stable insertion sort: x moves left past the
\* elements it is less than.
RECURSIVE InsertRelease(_, _)
InsertRelease(sorted, x) ==
    IF sorted # <<>> /\ ReleaseLess(x, Last(sorted))
    THEN InsertRelease(Front(sorted), x) \o <<Last(sorted)>>
    ELSE sorted \o <<x>>

RECURSIVE SortReleases(_)
SortReleases(releases) ==
    IF releases = <<>> THEN <<>>
    ELSE InsertRelease(SortReleases(Front(releases)), Last(releases))

\* A less function that holds for equal types too.
ChangeLessOrEqual(a, b) == ~StrLess(b.Type, a.Type)

\* The less function of sort.SliceStable(rel.Changes, ...).
ChangeLess(a, b) == StrLess(a.Type, b.Type)

RECURSIVE InsertChange(_, _)
InsertChange(sorted, x) ==
    IF sorted # <<>> /\ ChangeLess(x, Last(sorted))
    THEN InsertChange(Front(sorted), x) \o <<Last(sorted)>>
    ELSE sorted \o <<x>>

RECURSIVE SortChanges(_)
SortChanges(changes) ==
    IF changes = <<>> THEN <<>>
    ELSE InsertChange(SortChanges(Front(changes)), Last(changes))

\* The orders in which "for ver, r := range cl" can fill releases.
RangeOrders(m) ==
    {o \in [1..Cardinality(DOMAIN m) -> DOMAIN m] :
        \A i, j \in DOMAIN o : i # j => o[i] # o[j]}

\* releases = append(releases, release{v: ver, d: r.Date})
ReleasesOf(m, o) == [i \in DOMAIN o |-> [v |-> o[i], d |-> m[o[i]].Date]]

\* if rel.Urgency == "" { rel.Urgency = "medium" }
UrgencyOut(rel) ==
    IF rel.Urgency = <<>> THEN <<"m", "e", "d", "i", "u", "m">> ELSE rel.Urgency

\* if rel.Distribution == "" { rel.Distribution = "stable" }
DistributionOut(rel) ==
    IF rel.Distribution = <<>> THEN <<"s", "t", "a", "b", "l", "e">> ELSE rel.Distribution

\* fmt.Sprintf("%s (%s) %s; urgency=%s", ...), without the "\n\n"
HeaderLine(packageName, ver, distribution, urgency) ==
    packageName \o <<" ", "(">> \o ver \o <<")", " ">> \o distribution
    \o <<";", " ", "u", "r", "g", "e", "n", "c", "y", "=">> \o urgency

\* fmt.Sprintf("  * %s: %s", ch.Type, ch.Body), without the "\n"
ChangeLine(ch) == <<" ", " ", "*", " ">> \o ch.Type \o <<":", " ">> \o ch.Body

\* fmt.Sprintf(" -- %s <%s>  %s", ...), without the "\n" before and the "\n\n" after
TrailerLine(maint, date) ==
    <<" ", "-", "-", " ">> \o maint.Name \o <<" ", "<">> \o maint.Email
    \o <<">", " ", " ">> \o date

RECURSIVE ChangesText(_)
ChangesText(changes) ==
    IF changes = <<>> THEN <<>>
    ELSE ChangeLine(Head(changes)) \o <<"\n">> \o ChangesText(Tail(changes))

\* What one pass of the loop over releases appends to s.
BlockText(packageName, r, rel) ==
    HeaderLine(packageName, VerText(r.v), DistributionOut(rel), UrgencyOut(rel))
    \o <<"\n", "\n">>
    \o ChangesText(SortChanges(rel.Changes))
    \o <<"\n">> \o TrailerLine(rel.Maintainer, FormatRFC1123Z(r.d)) \o <<"\n", "\n">>

RECURSIVE BlocksText(_, _, _)
BlocksText(packageName, m, rs) ==
    IF rs = <<>> THEN <<>>
    ELSE BlockText(packageName, Head(rs), m[Head(rs).v])
         \o BlocksText(packageName, m, Tail(rs))

\* A loop that visits releases[i]: the oldest release first.
EmitOrderOldestFirst(sorted) == sorted

\* The releases in the order the loop visits them: releases[len(releases)-i-1].
EmitOrder(sorted) == Reverse(sorted)

\* out without the strings.TrimSuffix: the text of the blocks as the loop left it.
DebianBytesUntrimmed(packageName, m, rs) == BlocksText(packageName, m, rs)

\* out: the blocks, and strings.TrimSuffix(s, "\n").
DebianBytes(packageName, m, rs) == TrimSuffix(BlocksText(packageName, m, rs), <<"\n">>)

\* A loop that writes the defaults into the map: cl[r.v] = rel.
AfterDebianStoresDefaults(m) ==
    [v \in DOMAIN m |-> [m[v] EXCEPT !.Changes = SortChanges(@),
                                     !.Urgency = UrgencyOut(m[v]),
                                     !.Distribution = DistributionOut(m[v])]]

\* The receiver after the call.  rel := cl[r.v] copies the Release, and the
\* copy's Changes is the same slice of the same array as the map's: the
\* elements sort.SliceStable moves are those of the caller's model.  Urgency
\* and Distribution are set in the copy only.
AfterDebian(m) == [v \in DOMAIN m |-> [m[v] EXCEPT !.Changes = SortChanges(@)]]

-----------------------------------------------------------------------------
\* bufio.Scanner with the default split function, bufio.ScanLines.

DropCR(line) == IF line # <<>> /\ Last(line) = "\r" THEN Front(line) ELSE line

\* Every line scanner.Text() returns for these bytes; a last line without a
\* newline is returned when it is not empty.
RECURSIVE ScanLines(_)
ScanLines(bytes) ==
    IF bytes = <<>> THEN <<>>
    ELSE IF Index(bytes, <<"\n">>) = 0 THEN <<DropCR(bytes)>>
    ELSE <<DropCR(Before(bytes, <<"\n">>))>> \o ScanLines(After(bytes, <<"\n">>))

-----------------------------------------------------------------------------
\* The stream as its reader sees it, whatever the parser makes of it.

\* Nothing read yet.
NoStream == [head |-> <<>>, st |-> "between", vers |-> {}, failed |-> FALSE]

\* ParseMd's input: head is the most recent level-2 heading.
MdStream(line) ==
    [stream EXCEPT !.head = IF HasPrefix(line, <<"#", "#", " ">>) THEN line ELSE @]

\* " -- name <email>  date" with a date that parses.
WellFormedTrailer(line) ==
    /\ HasPrefix(line, <<" ", "-", "-", " ">>)
    /\ Len(Split(TrimPrefix(line, <<" ", "-", "-", " ">>), <<" ", " ">>)) = 2
    /\ Index(Before(line, <<" ", " ">>), <<" ", "<">>) # 0
    /\ HasSuffix(Before(line, <<" ", " ">>), <<">">>)
    /\ ParseRFC1123Z(After(line, <<" ", " ">>)).ok

\* A header line: a line containing a version, outside a change line.
IsHeader(line) == FindString(line) # <<>> /\ ~HasPrefix(line, <<" ", " ", "*", " ">>)

\* Where a line leaves an input made of blocks: between two blocks (st is
\* "between"), in a block whose trailer is still to come ("inblock"), or not
\* such an input ("bad": a version repeated, a header or any other line where
\* none belongs, a malformed trailer).  vers are the versions of the blocks
\* read in full.
BlockState(line) ==
    IF stream.st = "between"
    THEN IF FindString(line) = <<>> THEN "between"
         ELSE IF IsHeader(line) /\ ToVersion(FindString(line)).v \notin stream.vers
         THEN "inblock"
         ELSE "bad"
    ELSE IF stream.st = "inblock"
    THEN IF HasPrefix(line, <<" ", " ", "*", " ">>) THEN "inblock"
         ELSE IF line = <<>> THEN "inblock"
         ELSE IF WellFormedTrailer(line) THEN "between"
         ELSE "bad"
    ELSE "bad"

\* ParseDebian's input: head is the most recent header line.
DebStream(line) ==
    [head |-> IF IsHeader(line) THEN line ELSE stream.head,
     st |-> BlockState(line),
     vers |-> IF stream.st = "inblock" /\ BlockState(line) = "between"
              THEN stream.vers \cup {ToVersion(FindString(stream.head)).v}
              ELSE stream.vers,
     failed |-> stream.failed]

-----------------------------------------------------------------------------
\* ParseMd: one pass of "for scanner.Scan()".

\* case strings.HasPrefix(line, "## "), with v, err = ToVersion(verString) in r
MdHeading(line, verString, r) ==
    IF r.err = "nil"
    THEN /\ err' = IF r.v \in DOMAIN cl THEN "multiple" ELSE "nil"
         /\ flagged' = IF r.v \in DOMAIN cl THEN flagged \cup {"multiple"} ELSE flagged
         /\ cl' = Put(cl, r.v, [ZeroRelease EXCEPT !.Date = MdDate(line)])
         /\ curVer' = <<r.v>>
    ELSE /\ err' = r.err
         /\ flagged' = flagged \cup {r.err}
         /\ UNCHANGED <<cl, curVer>>

\* case strings.HasPrefix(line, "- ") && curVer != nil
MdBullet(line, v) ==
    cl' = Put(cl, v, [cl[v] EXCEPT !.Changes =
                         Append(@, [Type |-> curGrp, Body |-> TrimPrefix(line, <<"-", " ">>)])])

\* switch { case ... }
MdCase(line) ==
    IF HasPrefix(line, <<"#", "#", " ">>)
    THEN /\ MdHeading(line, FindString(line), ToVersion(FindString(line)))
         /\ UNCHANGED curGrp
    ELSE IF HasPrefix(line, <<"#", "#", "#", " ">>)
    THEN /\ curGrp' = TrimPrefix(line, <<"#", "#", "#", " ">>)
         /\ UNCHANGED <<cl, err, curVer, flagged>>
    ELSE IF HasPrefix(line, <<"-", " ">>) /\ curVer # <<>>
    THEN /\ MdBullet(line, curVer[1])
         /\ UNCHANGED <<err, curVer, curGrp, flagged>>
    ELSE UNCHANGED <<cl, err, curVer, curGrp, flagged>>

MdLine(line) ==
    /\ MdCase(line)
    /\ stream' = MdStream(line)

-----------------------------------------------------------------------------
\* ParseDebian: one pass of the outer or of the inner "for scanner.Scan()".

\* for _, comp := range comps { switch ... }
RECURSIVE HeaderFields(_, _)
HeaderFields(rel, comps) ==
    IF comps = <<>> THEN rel
    ELSE IF HasSuffix(Head(comps), <<";">>)
    THEN HeaderFields([rel EXCEPT !.Distribution = TrimSuffix(Head(comps), <<";">>)],
                      Tail(comps))
    ELSE IF HasPrefix(Head(comps), <<"u", "r", "g", "e", "n", "c", "y", "=">>)
    THEN HeaderFields([rel EXCEPT !.Urgency =
                          TrimPrefix(Head(comps), <<"u", "r", "g", "e", "n", "c", "y", "=">>)],
                      Tail(comps))
    ELSE HeaderFields(rel, Tail(comps))

\* The outer loop's body, with v, err = ToVersion(verString) in r.
DebOuter(line, verString, r) ==
    IF r.err = "nil"
    THEN /\ err' = IF r.v \in DOMAIN cl THEN "multiple" ELSE "nil"
         /\ flagged' = IF r.v \in DOMAIN cl THEN flagged \cup {"multiple"} ELSE flagged
         /\ blk' = [v |-> r.v, verString |-> verString,
                    rel |-> HeaderFields(ZeroRelease, Split(line, <<" ">>))]
         /\ pc' = "inner"
         /\ UNCHANGED <<cl, via>>
    ELSE /\ err' = r.err
         /\ UNCHANGED <<pc, cl, blk, flagged, via>>

\* s := strings.SplitN(line, ": ", 2) and the Change made of it.
ChangeOf(line, s) ==
    IF Len(s) = 2 THEN [Type |-> s[1], Body |-> s[2]] ELSE [Type |-> <<>>, Body |-> line]

\* a := strings.Split(s[0], " <") and the Maintainer made of it.
MaintainerOf(s0, a) ==
    IF Len(a) = 2 THEN [Name |-> a[1], Email |-> TrimSuffix(a[2], <<">">>)]
    ELSE [Name |-> s0, Email |-> <<>>]

\* if strings.HasPrefix(line, " -- ") { ... }: line is the whole trailer line,
\* s the parts of what follows " -- ", rel the block's release so far.
\* Every path ends in break, back in the outer loop.
DebTrailer(line, s, rel) ==
    /\ pc' = "outer"
    /\ blk' = ZeroBlock
    /\ IF Len(s) # 2
       THEN /\ err' = "author"
            /\ flagged' = flagged \cup {"author"}
            /\ UNCHANGED <<cl, via>>
       ELSE IF ~ParseRFC1123Z(s[2]).ok
       THEN /\ err' = "date"
            /\ flagged' = flagged \cup {"date"} \cup
                   (IF Len(Split(s[1], <<" ", "<">>)) = 2 THEN {} ELSE {"maintainer"})
            /\ UNCHANGED <<cl, via>>
       ELSE /\ err' = IF Len(Split(s[1], <<" ", "<">>)) = 2 THEN err ELSE "maintainer"
            /\ flagged' = flagged \cup
                   (IF Len(Split(s[1], <<" ", "<">>)) = 2 THEN {} ELSE {"maintainer"})
            /\ cl' = Put(cl, blk.v,
                         [rel EXCEPT !.Maintainer = MaintainerOf(s[1], Split(s[1], <<" ", "<">>)),
                                     !.Date = ParseRFC1123Z(s[2]).d])
            /\ via' = Put(via, blk.v, line)

\* The inner loop's body after the "  * " case: line is what that case left
\* in the variable line, rel the release it left.
DebInnerRest(line, rel) ==
    IF HasPrefix(line, <<" ", "-", "-", " ">>)
    THEN DebTrailer(line, Split(TrimPrefix(line, <<" ", "-", "-", " ">>), <<" ", " ">>), rel)
    ELSE /\ blk' = [blk EXCEPT !.rel = rel]
         /\ UNCHANGED <<pc, cl, err, flagged, via>>

\* The inner loop's body.
DebInner(line) ==
    IF HasPrefix(line, <<" ", " ", "*", " ">>)
    THEN DebInnerRest(
             TrimPrefix(line, <<" ", " ", "*", " ">>),
             [blk.rel EXCEPT !.Changes =
                 Append(@, ChangeOf(TrimPrefix(line, <<" ", " ", "*", " ">>),
                                    SplitN2(TrimPrefix(line, <<" ", " ", "*", " ">>),
                                            <<":", " ">>)))])
    ELSE DebInnerRest(line, blk.rel)

DebLine(line) ==
    /\ IF pc = "outer"
       THEN DebOuter(line, FindString(line), ToVersion(FindString(line)))
       ELSE DebInner(line)
    /\ stream' = DebStream(line)
    /\ UNCHANGED <<curVer, curGrp>>

-----------------------------------------------------------------------------
\* ToVersion called on its own.

VerChars == {"0", "1", "a", "-", ".", "+"}

\* The strings the calls start from; those of TestToVersion are among them.
VerCores ==
    { <<>>,
      <<"1", ".", "0", ".", "0">>,
      <<"1", "0", ".", "2", ".", "3">>,
      <<"1", ".", "1", ".", "0">>,
      <<"5", "1", ".", "1", "6", ".", "2", "3", "4", "+", "1", "4", "a">>,
      <<"4", ".", "2", ".", "1", "5", "-", "p", "r", "e", "2", ".", "1", "1">>,
      <<"1", ".", "1", ".", "0", ".", "2">>,
      <<"1", ".", "3", ".", "-", "2", "-", "1", "5">>,
      <<"v", "3", ".", "2", ".", "1", "8", "-", "r", "c", "1", "+", "d", "f", "8", "8", "9", "1">> }

Idle ==
    /\ pc = "idle" /\ cl = EmptyMap /\ err = "nil" /\ curVer = <<>> /\ curGrp = <<>>
    /\ blk = ZeroBlock /\ nread = 0 /\ last = <<>> /\ flagged = {} /\ via = EmptyMap
    /\ stream = NoStream

NoFormat ==
    /\ clIn = EmptyMap /\ pkg = <<>> /\ out = NotCalled /\ emitted = <<>>
    /\ before = EmptyMap /\ buf = <<>>

NoVersion == vs = [s |-> <<>>, added |-> 0] /\ vres = NotReturned

InitVer ==
    /\ vs \in [s : VerCores, added : {0}]
    /\ vres = NotReturned
    /\ Idle
    /\ NoFormat

\* The caller writes one more character of the argument.
VerAppend(c) ==
    /\ ~vres.returned
    /\ vs.added < MaxSuffix
    /\ vs' = [s |-> vs.s \o <<c>>, added |-> vs.added + 1]
    /\ UNCHANGED <<vres, parseVars, fmtVars>>

VerCall ==
    /\ ~vres.returned
    /\ vres' = Returned(ToVersion(vs.s))
    /\ UNCHANGED <<vs, parseVars, fmtVars>>

NextVer == (\E c \in VerChars : VerAppend(c)) \/ VerCall

SpecVer == InitVer /\ [][NextVer]_vars

-----------------------------------------------------------------------------
\* ParseMd reading any lines.

V100 == <<"1", ".", "0", ".", "0">>

V101 == <<"1", ".", "0", ".", "1">>

\* "## [" ver "]"
MdRelease(ver) == <<"#", "#", " ", "[">> \o ver \o <<"]">>

\* " - 2019-07-" dd
MdDay(d) == <<" ", "-", " ", "2", "0", "1", "9", "-", "0", "7", "-">> \o TwoDigits(d)

MdLines ==
    { MdRelease(V100) \o MdDay(13),
      MdRelease(V100) \o MdDay(18),
      MdRelease(V101),
      MdRelease(<<"U", "n", "r", "e", "l", "e", "a", "s", "e", "d">>),
      <<"#", "#", "#", " ", "A", "d", "d", "e", "d">>,
      <<"-", " ", "x">>,
      <<>> }

InitMd ==
    /\ pc = "md" /\ cl = EmptyMap /\ err = "nil" /\ curVer = <<>> /\ curGrp = <<>>
    /\ blk = ZeroBlock /\ nread = 0 /\ last = <<>> /\ flagged = {} /\ via = EmptyMap
    /\ stream = NoStream
    /\ NoVersion
    /\ NoFormat

\* scanner.Scan() returns true and the loop body runs on scanner.Text().
MdScan(line) ==
    /\ pc = "md"
    /\ nread < MaxLines
    /\ MdLine(line)
    /\ nread' = nread + 1
    /\ last' = line
    /\ UNCHANGED <<pc, blk, via, verVars, fmtVars>>

\* scanner.Scan() returns false: return cl, err.
MdEOF ==
    /\ pc = "md"
    /\ pc' = "done"
    /\ UNCHANGED <<cl, err, curVer, curGrp, blk, nread, last, flagged, via, stream,
                   verVars, fmtVars>>

\* scanner.Scan() returns false because the read failed (an error of the
\* reader, or bufio.ErrTooLong): scanner.Err() is not nil, the function does
\* not read it: return cl, err.
MdFail ==
    /\ pc = "md"
    /\ pc' = "done"
    /\ stream' = [stream EXCEPT !.failed = TRUE]
    /\ UNCHANGED <<cl, err, curVer, curGrp, blk, nread, last, flagged, via, verVars, fmtVars>>

NextMd == (\E line \in MdLines : MdScan(line)) \/ MdEOF \/ MdFail

SpecMd == InitMd /\ [][NextMd]_vars

-----------------------------------------------------------------------------
\* ParseDebian reading any lines.

John == [Name |-> <<"J", " ", "D">>, Email |-> <<"j", "@", "d">>]

Stable == <<"s", "t", "a", "b", "l", "e">>

Low == <<"l", "o", "w">>

DebLines ==
    { HeaderLine(<<"p">>, V100, Stable, Low),
      HeaderLine(<<"p">>, V101, <<"s", "i", "d">>, <<"h", "i", "g", "h">>),
      <<" ", " ", "*", " ", "A", ":", " ", "x">>,
      TrailerLine(John, FormatRFC1123Z(13)),
      TrailerLine(John, FormatRFC1123Z(18)),
      \* no " <email>" part
      <<" ", "-", "-", " ", "J", " ", "D", " ", " ">> \o FormatRFC1123Z(13),
      \* no double space before the date
      <<" ", "-", "-", " ", "J", " ", "D", " ", "<", "j", "@", "d", ">", " ">>
          \o FormatRFC1123Z(13),
      \* a date that is not RFC 1123
      <<" ", "-", "-", " ", "J", " ", "D", " ", "<", "j", "@", "d", ">", " ", " ",
        "2", "0", "1", "9", "-", "0", "7", "-", "1", "3">>,
      <<>> }

InitDeb ==
    /\ pc = "outer" /\ cl = EmptyMap /\ err = "nil" /\ curVer = <<>> /\ curGrp = <<>>
    /\ blk = ZeroBlock /\ nread = 0 /\ last = <<>> /\ flagged = {} /\ via = EmptyMap
    /\ stream = NoStream
    /\ NoVersion
    /\ NoFormat

\* scanner.Scan() returns true, in the outer or in the inner loop.
DebScan(line) ==
    /\ pc \in {"outer", "inner"}
    /\ nread < MaxLines
    /\ DebLine(line)
    /\ nread' = nread + 1
    /\ last' = line
    /\ UNCHANGED <<verVars, fmtVars>>

\* scanner.Scan() returns false: the inner loop ends, then the outer, return.
DebEOF ==
    /\ pc \in {"outer", "inner"}
    /\ pc' = "done"
    /\ UNCHANGED <<cl, err, curVer, curGrp, blk, nread, last, flagged, via, stream,
                   verVars, fmtVars>>

\* scanner.Scan() returns false because the read failed, in the outer or in
\* the inner loop; scanner.Err() is not read: return.
DebFail ==
    /\ pc \in {"outer", "inner"}
    /\ pc' = "done"
    /\ stream' = [stream EXCEPT !.failed = TRUE]
    /\ UNCHANGED <<cl, err, curVer, curGrp, blk, nread, last, flagged, via, verVars, fmtVars>>

NextDeb == (\E line \in DebLines : DebScan(line)) \/ DebEOF \/ DebFail

SpecDeb == InitDeb /\ [][NextDeb]_vars

-----------------------------------------------------------------------------
\* A caller builds a model, calls Debian() on it and reads the bytes back
\* with ParseDebian, as TestDebian does.

Ver(major, minor, patch, pre) ==
    [Major |-> major, Minor |-> minor, Patch |-> patch, Prerelease |-> pre]

FmtVersions ==
    { Ver(1, 0, 0, <<>>), Ver(1, 0, 0, <<"r", "c">>), Ver(1, 0, 0, <<"0", "a">>),
      Ver(1, 0, 1, <<>>), Ver(1, 1, 0, <<>>), Ver(0, 2, 0, <<>>) }

FmtDates == {13, 18}

Chg(type, body) == [Type |-> type, Body |-> body]

FmtReleases ==
    { [Date |-> d, Changes |-> <<Chg(<<"F">>, <<"x">>), Chg(<<"A">>, <<"y">>)>>,
       Urgency |-> <<>>, Distribution |-> <<>>, Maintainer |-> John] : d \in FmtDates }
    \cup
    { [Date |-> 13, Changes |-> <<Chg(<<"A">>, <<"y">>), Chg(<<"A">>, <<"x">>)>>,
       Urgency |-> Low, Distribution |-> <<"s", "i", "d">>, Maintainer |-> John],
      [Date |-> 18, Changes |-> <<>>,
       Urgency |-> <<>>, Distribution |-> Stable, Maintainer |-> John] }

FmtPackages == { <<"p">>, <<"a", "p", "p">> }

InitFmt ==
    /\ clIn = EmptyMap /\ pkg \in FmtPackages /\ out = NotCalled /\ emitted = <<>>
    /\ before = EmptyMap /\ buf = <<>>
    /\ Idle
    /\ NoVersion

\* cl[v] = rel, by the caller, before the call.
SetRelease(v, rel) ==
    /\ ~out.called
    /\ v \notin DOMAIN clIn
    /\ Cardinality(DOMAIN clIn) < MaxReleases
    /\ clIn' = Put(clIn, v, rel)
    /\ UNCHANGED <<pkg, out, emitted, before, buf, verVars, parseVars>>

\* The results of Debian() when its loop visits the releases rs.
DebianReturn(rs) ==
    /\ emitted' = rs
    /\ out' = [called |-> TRUE, bytes |-> DebianBytes(pkg, clIn, rs)]

\* cl.Debian(packageName)
DebianCall ==
    /\ ~out.called
    /\ \E o \in RangeOrders(clIn) :
           DebianReturn(EmitOrder(SortReleases(ReleasesOf(clIn, o))))
    /\ clIn' = AfterDebian(clIn)
    /\ before' = clIn
    /\ UNCHANGED <<pkg, buf, verVars, parseVars>>

\* changelog.ParseDebian(bytes.NewReader(out)): cl = make(...), a new scanner.
ParseBack ==
    /\ out.called
    /\ pc = "idle"
    /\ pc' = "outer"
    /\ buf' = ScanLines(out.bytes)
    /\ UNCHANGED <<cl, err, curVer, curGrp, blk, nread, last, flagged, via, stream,
                   clIn, pkg, out, emitted, before, verVars>>

\* scanner.Scan() returns true with the next line of the bytes.
ReadBack ==
    /\ pc \in {"outer", "inner"}
    /\ buf # <<>>
    /\ DebLine(Head(buf))
    /\ buf' = Tail(buf)
    /\ nread' = nread + 1
    /\ last' = Head(buf)
    /\ UNCHANGED <<clIn, pkg, out, emitted, before, verVars>>

\* scanner.Scan() returns false at the end of the bytes.
ReadBackEOF ==
    /\ pc \in {"outer", "inner"}
    /\ buf = <<>>
    /\ pc' = "done"
    /\ UNCHANGED <<cl, err, curVer, curGrp, blk, nread, last, flagged, via, stream,
                   fmtVars, verVars>>

NextFmt ==
    \/ \E v \in FmtVersions, rel \in FmtReleases : SetRelease(v, rel)
    \/ DebianCall
    \/ ParseBack
    \/ ReadBack
    \/ ReadBackEOF

SpecFmt == InitFmt /\ [][NextFmt]_vars

-----------------------------------------------------------------------------
\* The four uses together.

Init == InitVer \/ InitMd \/ InitDeb \/ InitFmt

Next == NextVer \/ NextMd \/ NextDeb \/ NextFmt

Spec == Init /\ [][Next]_vars

-----------------------------------------------------------------------------
\* Claims.

StructuralErrors == {"multiple", "author", "maintainer", "date"}

\* C1 (as claimed): when ParseDebian has returned and some block repeated a
\* committed version or had a malformed trailer line, the returned err is not nil.
C1_DebianErrorKept ==
    (pc = "done" /\ flagged \cap StructuralErrors # {}) => err # "nil"

\* C2 (as claimed): when ParseMd has returned and some "## " heading repeated a
\* recorded version or carried no valid version, the returned err is not nil.
C2_MdErrorKept ==
    (pc = "done" /\ flagged # {}) => err # "nil"

\* r2 is r, but for changes appended after those of r.
Kept(r, r2) ==
    /\ r2.Date = r.Date
    /\ r2.Urgency = r.Urgency
    /\ r2.Distribution = r.Distribution
    /\ r2.Maintainer = r.Maintainer
    /\ Len(r2.Changes) >= Len(r.Changes)
    /\ SubSeq(r2.Changes, 1, Len(r.Changes)) = r.Changes

\* C3 (as claimed): a release stored under a version is never replaced: no
\* step of the parser changes its date, urgency, distribution or maintainer,
\* or the changes it already has.
C3_FirstReleaseKept ==
    [][\A v \in DOMAIN cl : Kept(cl[v], cl'[v])]_vars

\* The order of the claim: major, minor, patch numerically, then a version with
\* a prerelease label before the version without one, two labels lexically.
ClaimedLess(a, b) ==
    IF a.Major # b.Major THEN a.Major < b.Major
    ELSE IF a.Minor # b.Minor THEN a.Minor < b.Minor
    ELSE IF a.Patch # b.Patch THEN a.Patch < b.Patch
    ELSE IF a.Prerelease = <<>> THEN FALSE
    ELSE IF b.Prerelease = <<>> THEN TRUE
    ELSE StrLess(a.Prerelease, b.Prerelease)

\* C4 (as claimed): releases of the same date are sorted in the order of the
\* claim (emitted holds them in descending order).
C4_PrereleaseBeforeRelease ==
    out.called =>
        \A i, j \in DOMAIN emitted :
            (i < j /\ emitted[i].d = emitted[j].d) => ClaimedLess(emitted[j].v, emitted[i].v)

\* C5 (as claimed): every key of the model was stored by a trailer line that
\* had a name, an email in angle brackets and a valid date.
C5_CommitNeedsFullTrailer ==
    \A v \in DOMAIN cl : WellFormedTrailer(via[v])

\* How many elements of s equal x.
RECURSIVE Count(_, _)
Count(s, x) ==
    IF s = <<>> THEN 0
    ELSE (IF Head(s) = x THEN 1 ELSE 0) + Count(Tail(s), x)

SameChanges(s, t) ==
    /\ Len(s) = Len(t)
    /\ \A i \in DOMAIN s : Count(s, s[i]) = Count(t, s[i])

\* The release r of the caller's model and the release got read back from it.
ReadBackEqual(r, got) ==
    /\ got.Date = r.Date
    /\ got.Maintainer = r.Maintainer
    /\ got.Urgency = UrgencyOut(r)
    /\ got.Distribution = DistributionOut(r)
    /\ SameChanges(got.Changes, r.Changes)

\* C6 (as claimed): ParseDebian on the bytes of Debian() returns a nil error
\* and a model with the keys of the caller's and, under each, an equal release.
C6_RoundTrip ==
    (out.called /\ pc = "done") =>
        /\ err = "nil"
        /\ DOMAIN cl = DOMAIN before
        /\ \A v \in DOMAIN cl \cap DOMAIN before : ReadBackEqual(before[v], cl[v])

\* The version order: major, then minor, then patch, then prerelease as strings.
VersionLess(a, b) ==
    \/ a.Major < b.Major
    \/ a.Major = b.Major /\ a.Minor < b.Minor
    \/ a.Major = b.Major /\ a.Minor = b.Minor /\ a.Patch < b.Patch
    \/ a.Major = b.Major /\ a.Minor = b.Minor /\ a.Patch = b.Patch
       /\ StrLess(a.Prerelease, b.Prerelease)

\* The lines of a sequence of lines that are header lines of package p.
RECURSIVE HeaderLines(_, _)
HeaderLines(lines, p) ==
    IF lines = <<>> THEN <<>>
    ELSE IF HasPrefix(Head(lines), p \o <<" ", "(">>)
    THEN <<Head(lines)>> \o HeaderLines(Tail(lines), p)
    ELSE HeaderLines(Tail(lines), p)

\* headers are the header lines of the bytes of Debian(), in their order.
NewestFirst(headers) ==
    /\ Len(headers) = Cardinality(DOMAIN before)
    /\ Len(emitted) = Len(headers)
    /\ \A v \in DOMAIN before :
           \E i \in DOMAIN emitted :
               /\ emitted[i].v = v
               /\ headers[i] = HeaderLine(pkg, VerText(v), DistributionOut(before[v]),
                                          UrgencyOut(before[v]))
    /\ \A i, j \in DOMAIN emitted :
           i < j =>
               \/ before[emitted[i].v].Date > before[emitted[j].v].Date
               \/ /\ before[emitted[i].v].Date = before[emitted[j].v].Date
                  /\ VersionLess(emitted[j].v, emitted[i].v)

WithoutBuild(s) == Before(s, <<"+">>)

\* C8 (as claimed): for a string that matches the grammar in full, ToVersion
\* returns a nil error and a Version that is written as the string without its
\* build metadata.
C8_VersionRoundTrip ==
    (vres.returned /\ FullMatch(vs.s)) =>
        /\ vres.err = "nil"
        /\ VerText(vres.v) = WithoutBuild(vs.s)

\* C9 (as claimed): after Debian() the caller's model is what it was before.
C9_ModelUnchanged ==
    out.called => clIn = before

\* The fields as written in a string of the grammar: the numbers between the
\* dots, and the text between the first "-" and the build metadata.
WrittenVersion(s) ==
    [Major |-> DecVal(Split(Before(WithoutBuild(s), <<"-">>), <<".">>)[1]),
     Minor |-> DecVal(Split(Before(WithoutBuild(s), <<"-">>), <<".">>)[2]),
     Patch |-> DecVal(Split(Before(WithoutBuild(s), <<"-">>), <<".">>)[3]),
     Prerelease |-> IF Index(WithoutBuild(s), <<"-">>) = 0 THEN <<>>
                    ELSE After(WithoutBuild(s), <<"-">>)]

\* C10 (as claimed): ToVersion returns ErrNotSemver exactly when the whole
\* string does not match, and then the zero Version; with a nil error it
\* returns the fields written in the string.
C10_ToVersionResult ==
    vres.returned =>
        /\ (vres.err = "ErrNotSemver") <=> ~FullMatch(vs.s)
        /\ (vres.err = "ErrNotSemver" => vres.v = ZeroVersion)
        /\ (vres.err = "nil" => vres.v = WrittenVersion(vs.s))

\* What ParseMd read in this step: the line scanner.Text() returned.
MdRead == pc = "md" /\ nread' = nread + 1

\* C11 (as claimed): a bullet line read while a release is open appends one
\* Change to that release, after those it has, with the current group label
\* as Type and the rest of the line as Body; the label is the text of the
\* most recent "### " line; any other line leaves every change list as it is.
C11_BulletAppendsOne ==
    [][MdRead =>
          /\ curGrp' = IF HasPrefix(last', <<"#", "#", "#", " ">>)
                       THEN TrimPrefix(last', <<"#", "#", "#", " ">>)
                       ELSE curGrp
          /\ IF HasPrefix(last', <<"-", " ">>) /\ curVer # <<>>
             THEN cl' = Put(cl, curVer[1],
                            [cl[curVer[1]] EXCEPT !.Changes =
                                Append(@, [Type |-> curGrp,
                                           Body |-> TrimPrefix(last', <<"-", " ">>)])])
             ELSE \A v \in DOMAIN cl : cl'[v].Changes = cl[v].Changes]_vars

\* What ParseDebian read in this step, in the outer or in the inner loop.
DebRead == pc \in {"outer", "inner"} /\ nread' = nread + 1

\* C12 (as claimed): a trailer line without an email in angle brackets, or
\* with a date that does not parse, ends its block with every release
\* committed before it as it was, also the one of the block's own version.
C12_MalformedTrailerKeeps ==
    [][(DebRead /\ pc = "inner"
        /\ HasPrefix(last', <<" ", "-", "-", " ">>) /\ ~WellFormedTrailer(last')) =>
          \A v \in DOMAIN cl : v \in DOMAIN cl' /\ cl'[v] = cl[v]]_vars

\* C13 (as claimed): when the lines read are blocks with distinct versions and
\* well-formed trailers, with lines holding no version before, between and
\* after them, ParseDebian returns a nil error and a model whose keys are the
\* versions of the blocks (read here for inputs of one block at least).
C13_UnrecognizedLinesSkipped ==
    (pc = "done" /\ ~out.called /\ ~stream.failed
     /\ stream.st = "between" /\ stream.vers # {}) =>
        /\ err = "nil"
        /\ DOMAIN cl = stream.vers

\* C14 (as claimed): when the read of the stream failed, ParseMd and
\* ParseDebian return an error that is not nil.
C14_ReadFailureReported ==
    (pc = "done" /\ stream.failed) => err # "nil"

\* The header line the claims describe.
ClaimedHeader(package, version, distribution, urgency) ==
    package \o <<" ", "(">> \o version \o <<")", " ">> \o distribution \o <<";", " ">>
    \o <<"u", "r", "g", "e", "n", "c", "y", "=">> \o urgency

Medium == <<"m", "e", "d", "i", "u", "m">>

\* headers, the header lines of the bytes in their order, carry each release's
\* distribution and urgency, or "stable" and "medium" where it has none.
DefaultsInHeaders(headers) ==
    /\ Len(headers) = Len(emitted)
    /\ \A i \in DOMAIN emitted :
           headers[i] =
               ClaimedHeader(pkg, VerText(emitted[i].v),
                   IF before[emitted[i].v].Distribution = <<>> THEN Stable
                   ELSE before[emitted[i].v].Distribution,
                   IF before[emitted[i].v].Urgency = <<>> THEN Medium
                   ELSE before[emitted[i].v].Urgency)

\* C15: the block Debian() writes for a release has "urgency=medium" when the
\* release has no urgency and "stable" when it has no distribution, and the
\* release's own values otherwise; after the call the urgency and the
\* distribution of every release of the model are what they were before.
C15_DefaultsOnlyInOutput ==
    (out.called /\ pc = "idle") =>
        /\ DOMAIN clIn = DOMAIN before
        /\ \A v \in DOMAIN before :
               /\ clIn[v].Urgency = before[v].Urgency
               /\ clIn[v].Distribution = before[v].Distribution
        /\ DefaultsInHeaders(HeaderLines(ScanLines(out.bytes), pkg))

\* C15 witness: Debian() has written a release with no urgency and no
\* distribution and a release with both.
C15_Witness ==
    /\ out.called
    /\ pc = "idle"
    /\ \E v, w \in DOMAIN before :
           /\ before[v].Urgency = <<>> /\ before[v].Distribution = <<>>
           /\ before[w].Urgency # <<>> /\ before[w].Distribution # <<>>

\* The lines after the first line equal to h.
RECURSIVE AfterLine(_, _)
AfterLine(lines, h) ==
    IF lines = <<>> THEN <<>>
    ELSE IF Head(lines) = h THEN Tail(lines)
    ELSE AfterLine(Tail(lines), h)

\* The change lines among the lines before the first trailer line.
RECURSIVE LeadingChangeLines(_)
LeadingChangeLines(lines) ==
    IF lines = <<>> \/ HasPrefix(Head(lines), <<" ", "-", "-", " ">>) THEN <<>>
    ELSE IF HasPrefix(Head(lines), <<" ", " ", "*", " ">>)
    THEN <<Head(lines)>> \o LeadingChangeLines(Tail(lines))
    ELSE LeadingChangeLines(Tail(lines))

\* The header line the claims give the release of version v.
ClaimedHeaderOf(v) ==
    ClaimedHeader(pkg, VerText(v),
        IF before[v].Distribution = <<>> THEN Stable ELSE before[v].Distribution,
        IF before[v].Urgency = <<>> THEN Medium ELSE before[v].Urgency)

\* The change line the claims describe.
ClaimedChangeLine(ch) == <<" ", " ", "*", " ">> \o ch.Type \o <<":", " ">> \o ch.Body

\* The place of the k-th change in ascending order of Type, changes of equal
\* Type in the order of the sequence.
Rank(changes, k) ==
    1 + Cardinality({j \in DOMAIN changes :
                        \/ StrLess(changes[j].Type, changes[k].Type)
                        \/ changes[j].Type = changes[k].Type /\ j < k})

\* lines are one line per change, in ascending order of Type, stable.
SortedByType(lines, changes) ==
    /\ Len(lines) = Len(changes)
    /\ \A k \in DOMAIN changes : lines[Rank(changes, k)] = ClaimedChangeLine(changes[k])

\* In lines, the change lines under each release's header are its changes,
\* sorted.
BlocksSortedByType(lines) ==
    \A v \in DOMAIN before :
        SortedByType(LeadingChangeLines(AfterLine(lines, ClaimedHeaderOf(v))),
                     before[v].Changes)

\* C16: in the bytes of Debian() the change lines of each release's block are
\* the release's changes, each once, in ascending order of Type, changes of
\* equal Type in the order they have in the model.
C16_ChangesSortedStable ==
    (out.called /\ pc = "idle") => BlocksSortedByType(ScanLines(out.bytes))

\* C16 witness: Debian() has written a release whose changes were out of
\* order and a release with two changes of the same Type.
C16_Witness ==
    /\ out.called
    /\ pc = "idle"
    /\ \E v, w \in DOMAIN before :
           /\ Len(before[v].Changes) = 2
           /\ StrLess(before[v].Changes[2].Type, before[v].Changes[1].Type)
           /\ Len(before[w].Changes) = 2
           /\ before[w].Changes[1].Type = before[w].Changes[2].Type
           /\ before[w].Changes[1] # before[w].Changes[2]

\* The trailer line the claims describe.
ClaimedTrailer(maint, d) ==
    <<" ", "-", "-", " ">> \o maint.Name \o <<" ", "<">> \o maint.Email \o <<">">>
    \o <<" ", " ">> \o FormatRFC1123Z(d)

\* One line per change, in the order of C16.
ClaimedChangeLines(changes) ==
    [i \in DOMAIN changes |->
        ClaimedChangeLine(changes[CHOOSE k \in DOMAIN changes : Rank(changes, k) = i])]

\* The lines of the block of version v: header, blank line, change lines,
\* blank line, trailer.
ClaimedBlock(v) ==
    <<ClaimedHeaderOf(v), <<>>>> \o ClaimedChangeLines(before[v].Changes)
    \o << <<>>, ClaimedTrailer(before[v].Maintainer, before[v].Date) >>

\* The lines of the blocks of the releases rs, one blank line between two blocks.
RECURSIVE ClaimedLines(_)
ClaimedLines(rs) ==
    IF rs = <<>> THEN <<>>
    ELSE IF Tail(rs) = <<>> THEN ClaimedBlock(Head(rs).v)
    ELSE ClaimedBlock(Head(rs).v) \o << <<>> >> \o ClaimedLines(Tail(rs))

HeadFor(line, v) ==
    /\ line # <<>>
    /\ ToVersion(FindString(line)).err = "nil"
    /\ ToVersion(FindString(line)).v = v

\* C18 (as claimed): a bullet line adds a change only to the release of the
\* nearest "## " heading before it: the version whose change list a bullet
\* line changes is the version of the most recent "## " line.
C18_ChangeUnderNearestHeading ==
    [][(MdRead /\ HasPrefix(last', <<"-", " ">>)) =>
          \A v \in DOMAIN cl :
              cl'[v].Changes # cl[v].Changes => HeadFor(stream.head, v)]_vars

\* C19 (as claimed): what ParseDebian stores under a version was read between
\* a header line of that version and the next header line: when a line of the
\* input makes the parser store a release, the most recent header line is a
\* header of the version it is stored under.
C19_BlockBoundaries ==
    [][DebRead =>
          \A v \in DOMAIN cl' :
              (v \notin DOMAIN cl \/ cl'[v] # cl[v]) => HeadFor(stream'.head, v)]_vars

\* The order in which Debian() writes the releases of model m when the map is
\* ranged over in order o.
WrittenFor(m, o) == EmitOrder(SortReleases(ReleasesOf(m, o)))

\* C20: whatever the order in which the map is ranged over, Debian() writes
\* the releases in the same order and so returns the same bytes for the same
\* model and package name, on a first call and on a second call on the model
\* as the first left it; of two entries of a model one is less than the other
\* under the comparator.
C20_Deterministic ==
    (out.called /\ pc = "idle") =>
        /\ \A o \in RangeOrders(before) :
               WrittenFor(before, o) = emitted /\ WrittenFor(clIn, o) = emitted
        /\ DebianBytes(pkg, before, emitted) = out.bytes
        /\ DebianBytes(pkg, clIn, emitted) = out.bytes
        /\ \A v, w \in DOMAIN before :
               v # w => \/ ReleaseLess([v |-> v, d |-> before[v].Date],
                                       [v |-> w, d |-> before[w].Date])
                        \/ ReleaseLess([v |-> w, d |-> before[w].Date],
                                       [v |-> v, d |-> before[v].Date])

\* C20 witness: Debian() has written two releases of the same date that
\* differ in their blocks.
C20_Witness ==
    /\ out.called
    /\ pc = "idle"
    /\ \E v, w \in DOMAIN before :
           /\ v # w
           /\ before[v].Date = before[w].Date
           /\ before[v].Changes # before[w].Changes

====
